---- MODULE Spec2Model ----
(***************************************************************************)
(* State-machine model of the scoring and recommendation engine            *)
(* (src/analyzer.py, class SEOAnalyzer) with its configuration             *)
(* (src/config.py), of the file loader (src/data_loader.py, class          *)
(* DataLoader) and of the Streamlit script that drives both (src/app.py).  *)
(*                                                                         *)
(* Four specifications share the variables.  Spec runs the analyzer's      *)
(* two public methods on clean page tables; SpecPriority runs              *)
(* calculate_priority_score on tables whose metric cells may be missing,   *)
(* non-numeric or infinite; SpecInlinks runs generate_link_opportunities   *)
(* on tables whose Unique Inlinks column was not cleaned; SpecApp runs the *)
(* application: uploads, the load and reset buttons, and the script's      *)
(* reruns over st.session_state.                                           *)
(*                                                                         *)
(* Numbers.  The code computes in IEEE doubles.  The model computes the    *)
(* priority score in exact rationals <<num, den>> and the TF-IDF cosine    *)
(* similarity and the opportunity score in fixed point with SCALE units    *)
(* per 1.0 (integer division rounds down).  Indices are 1-based here and   *)
(* 0-based in the code.  Python's None is a record with isNone = TRUE.     *)
(***************************************************************************)
EXTENDS Integers, Sequences, FiniteSets, TLC

VARIABLES data, inlinks, similarity_matrix, url_to_idx,
          call, df_priority, opportunities, result,
          loader, session, ui

\* the SEOAnalyzer and its last call
analyzerVars == <<data, inlinks, similarity_matrix, url_to_idx,
                  call, df_priority, opportunities, result>>

\* the application around it: the DataLoader, st.session_state, and the
\* script run (its position, the button that started it, what it displayed)
appVars == <<loader, session, ui>>

vars == <<data, inlinks, similarity_matrix, url_to_idx,
          call, df_priority, opportunities, result,
          loader, session, ui>>

(***************************************************************************)
(* Bounds of the model.                                                    *)
(***************************************************************************)
MaxPages == 3

MaxEdges == 1

MaxTopN == 2

\* clicks on the load button in one session of the application
MaxLoads == 2

\* config.py sets 10; the model scales the per-target cap down so that it
\* binds on tables of MaxPages rows.
TOP_K_SUGGESTIONS_PER_PAGE == 1

(***************************************************************************)
(* Configuration (src/config.py).  Weights are in tenths.                  *)
(***************************************************************************)
SCALE == 100 * 100

\* mutant: the weights of the two pairs exchanged
PRIORITY_WEIGHTS_Exchanged ==
    [impressions |-> 2, position |-> 3, link_score |-> 2, depth |-> 3]

PRIORITY_WEIGHTS == [impressions |-> 3, position |-> 2, link_score |-> 3, depth |-> 2]

LINK_OPPORTUNITY_WEIGHTS ==
    [source_strength |-> 4, thematic_similarity |-> 4,
     outlinks_penalty |-> 1, target_need |-> 1]

MIN_SIMILARITY_THRESHOLD == SCALE \div 10

MAX_OUTLINKS_WARNING == 100

TOP_N_PAGES_TO_BOOST == 50

(***************************************************************************)
(* Generic helpers: sequences, exact rationals, integer square root.       *)
(***************************************************************************)
Range(s) == { s[i] : i \in 1..Len(s) }

\* the sequence with the values of a function on 1..n
AsSeq(f) == f \o <<>>

RECURSIVE SumSeq(_)
SumSeq(s) == IF s = <<>> THEN 0 ELSE Head(s) + SumSeq(Tail(s))

MaxOf(S) == CHOOSE x \in S : \A y \in S : y <= x

MinOf(S) == CHOOSE x \in S : \A y \in S : x <= y

Abs(x) == IF x < 0 THEN 0 - x ELSE x

RECURSIVE GCD(_, _)
GCD(a, b) == IF b = 0 THEN a ELSE GCD(b, a % b)

\* The rational n/d (d > 0) in lowest terms.
Rat(n, d) ==
    LET g == GCD(Abs(n), d) IN <<n \div g, d \div g>>

\* p + q and p - q over the least common denominator
RatAdd(p, q) ==
    LET g == GCD(p[2], q[2])
    IN  Rat(p[1] * (q[2] \div g) + q[1] * (p[2] \div g), (p[2] \div g) * q[2])

RatSub(p, q) ==
    LET g == GCD(p[2], q[2])
    IN  Rat(p[1] * (q[2] \div g) - q[1] * (p[2] \div g), (p[2] \div g) * q[2])

\* p / q for q > 0
RatDiv(p, q) ==
    LET g1 == GCD(Abs(p[1]), q[1])
        g2 == GCD(p[2], q[2])
    IN  IF p[1] = 0 THEN <<0, 1>>
        ELSE Rat((p[1] \div g1) * (q[2] \div g2), (p[2] \div g2) * (q[1] \div g1))

RatScale(k, p) == Rat(k * p[1], p[2])

RatLess(p, q) == p[1] * q[2] < q[1] * p[2]

RatLeq(p, q) == p[1] * q[2] <= q[1] * p[2]

RatMax(S) == CHOOSE x \in S : \A y \in S : RatLeq(y, x)

RatMin(S) == CHOOSE x \in S : \A y \in S : RatLeq(x, y)

\* floor(sqrt(n)) by bisection on [lo, hi]
RECURSIVE ISqrtIn(_, _, _)
ISqrtIn(n, lo, hi) ==
    IF lo >= hi THEN lo
    ELSE LET mid == (lo + hi + 1) \div 2
         IN  IF mid * mid <= n THEN ISqrtIn(n, mid, hi) ELSE ISqrtIn(n, lo, mid - 1)

ISqrt(n) == ISqrtIn(n, 0, 46340)

(***************************************************************************)
(* Input universe: the page tables and edge tables an SEOAnalyzer is       *)
(* constructed with.                                                       *)
(***************************************************************************)
Urls == {"/red-shoes", "/blue-shoes", "/red-hats", "/about-us"}

\* A cell of a metric column as the table holds it: a number, a missing
\* value (None / NaN), a non-numeric string, or an infinity.
Num(n) == [kind |-> "num", v |-> n]

Missing == [kind |-> "nan", v |-> 0]

Text == [kind |-> "text", v |-> 0]

PosInf == [kind |-> "inf", v |-> 0]

NegInf == [kind |-> "-inf", v |-> 0]

\* the cell read from a column the table does not have
Absent == [kind |-> "absent", v |-> 0]

\* the metric columns of a page: a weak page with search demand, a strong
\* hub, and a page in between
Profiles ==
    { [Impressions |-> Num(1000), Position |-> Num(20), LinkScore |-> Num(10),
       CrawlDepth |-> Num(3), UniqueInlinks |-> Num(0)],
      [Impressions |-> Num(0), Position |-> Num(100), LinkScore |-> Num(90),
       CrawlDepth |-> Num(1), UniqueInlinks |-> Num(5)],
      [Impressions |-> Num(500), Position |-> Num(5), LinkScore |-> Num(50),
       CrawlDepth |-> Num(2), UniqueInlinks |-> Num(1)] }

PageRows ==
    { [Address |-> u, Impressions |-> m.Impressions, Position |-> m.Position,
       LinkScore |-> m.LinkScore, CrawlDepth |-> m.CrawlDepth,
       UniqueInlinks |-> m.UniqueInlinks] : u \in Urls, m \in Profiles }

EdgeRows ==
    { [Source |-> "/blue-shoes", Destination |-> "/red-shoes"],
      [Source |-> "/red-shoes", Destination |-> "/red-hats"] }

SeqsUpTo(S, n) == UNION { [1..k -> S] : k \in 0..n }

PageTables == SeqsUpTo(PageRows, MaxPages)

RawRow(address, impressions, position, link_score, crawl_depth, unique_inlinks) ==
    [Address |-> address, Impressions |-> impressions, Position |-> position,
     LinkScore |-> link_score, CrawlDepth |-> crawl_depth,
     UniqueInlinks |-> unique_inlinks]

\* rows as an export may hold them: the two pages of the scoring scenario,
\* missing and non-numeric cells, infinities, values outside the metric
\* domains, and rows of different addresses that score the same
RawPageRows ==
    { RawRow("/red-shoes", Num(1000), Num(20), Num(10), Num(3), Num(0)),
      RawRow("/blue-shoes", Num(0), Num(100), Num(90), Num(1), Num(5)),
      RawRow("/red-shoes", Num(500), Num(50), Num(50), Num(2), Num(1)),
      RawRow("/blue-shoes", Missing, Missing, Missing, Missing, Num(0)),
      RawRow("/red-shoes", Text, Text, Text, Text, Num(2)),
      RawRow("/blue-shoes", PosInf, NegInf, PosInf, PosInf, Num(0)),
      RawRow("/red-shoes", Num(0 - 5), Num(0), Num(150), Num(0 - 1), Num(3)),
      RawRow("/blue-shoes", Num(2000), Num(250), Num(0 - 3), NegInf, Num(0)),
      RawRow("/blue-shoes", Num(3000), Num(1), Num(10), Num(3), Num(1)) }

RawPageTables == SeqsUpTo(RawPageRows, MaxPages)

\* what the column Unique Inlinks may hold when the caller did not clean it
UncleanedInlinks == {Num(0), Num(5), Missing, Text, Num(0 - 1)}

\* pages with such values: a weak page with search demand under each of
\* them, a strong hub and a page in between
UncleanedInlinksRows ==
    { RawRow("/red-shoes", Num(1000), Num(20), Num(10), Num(3), c) :
        c \in UncleanedInlinks }
    \cup { RawRow("/blue-shoes", Num(0), Num(100), Num(90), Num(1), Num(5)),
           RawRow("/red-hats", Num(500), Num(5), Num(50), Num(2), Missing) }

\* the table without the column
WithoutInlinksColumn(rows) ==
    AsSeq([i \in 1..Len(rows) |-> [rows[i] EXCEPT !.UniqueInlinks = Absent]])

\* non-empty tables with the column, and the same tables without it
UncleanedInlinksTables ==
    LET tables == SeqsUpTo(UncleanedInlinksRows, MaxPages) \ {<<>>}
    IN  tables \cup { WithoutInlinksColumn(t) : t \in tables }

None == [isNone |-> TRUE]

Some(v) == [isNone |-> FALSE, v |-> v]

EdgeTables == {None} \cup { Some(e) : e \in SeqsUpTo(EdgeRows, MaxEdges) }

(***************************************************************************)
(* calculate_priority_score                                                *)
(***************************************************************************)
Clip(x, lo, hi) == IF x < lo THEN lo ELSE IF x > hi THEN hi ELSE x

ClipLower(x, lo) == IF x < lo THEN lo ELSE x

\* pd.to_numeric(errors='coerce'): a non-numeric value becomes NaN
ToNumeric(cell) == IF cell.kind = "text" THEN Missing ELSE cell

\* Series.fillna(default)
FillNa(cell, default) == IF cell.kind = "nan" THEN Num(default) ELSE cell

\* line 37: df.replace([np.inf, -np.inf], np.nan)
ReplaceInf(cell) == IF cell.kind \in {"inf", "-inf"} THEN Missing ELSE cell

\* line 34: the column made numeric, NaN filled with 0 (100 for Position).
\* A column absent from the table (lines 32-33) gets the same values as a
\* column of missing cells.
Coerce(cell, col) == FillNa(ToNumeric(cell), IF col = "Position" THEN 100 ELSE 0)

\* lines 37-41 after line 34: infinities become NaN, NaN is filled with the
\* default of lines 38-41; the result is a number
Finite(cell, col, default) == FillNa(ReplaceInf(Coerce(cell, col)), default).v

\* lines 30-41: the metric columns as numbers clipped to their domains
Sanitize(row) ==
    [row EXCEPT !.Impressions = ClipLower(Finite(row.Impressions, "Impressions", 0), 0),
                !.Position = Clip(Finite(row.Position, "Position", 100), 1, 100),
                !.LinkScore = Clip(Finite(row.LinkScore, "Link Score", 0), 0, 100),
                !.CrawlDepth = ClipLower(Finite(row.CrawlDepth, "Crawl Depth", 1), 0)]

\* mutant: the range is taken as the maximum, not maximum minus minimum
Normalize_DivByMax(series) ==
    IF series = <<>> THEN <<>>
    ELSE LET mx == RatMax(Range(series))
             mn == RatMin(Range(series))
         IN  IF mx = mn THEN AsSeq([i \in 1..Len(series) |-> <<0, 1>>])
             ELSE AsSeq([i \in 1..Len(series) |->
                      RatDiv(RatSub(series[i], mn), mx)])

\* _normalize on a column of rationals
Normalize(series) ==
    IF series = <<>> THEN <<>>
    ELSE LET mx == RatMax(Range(series))
             mn == RatMin(Range(series))
         IN  IF mx = mn THEN AsSeq([i \in 1..Len(series) |-> <<0, 1>>])
             ELSE AsSeq([i \in 1..Len(series) |->
                      RatDiv(RatSub(series[i], mn), RatSub(mx, mn))])

\* 1 / (x + 1)
Inverse(x) == Rat(1, x + 1)

\* twice the median of a non-empty integer column: the sum of the two middle
\* order statistics (the same one twice when the length is odd)
OrderStat(series, k) ==
    CHOOSE v \in Range(series) :
        /\ Cardinality({ i \in 1..Len(series) : series[i] < v }) < k
        /\ Cardinality({ i \in 1..Len(series) : series[i] <= v }) >= k

\* mutant: the middle of the column as it stands, not of its sorted values
Median2_Unsorted(series) ==
    LET n == Len(series)
    IN  series[(n + 1) \div 2] + series[(n \div 2) + 1]

\* mutant: the upper of the two middle values, not their mean
Median2_Upper(series) ==
    LET n == Len(series)
    IN  2 * OrderStat(series, (n \div 2) + 1)

Median2(series) ==
    LET n == Len(series)
    IN  OrderStat(series, (n + 1) \div 2) + OrderStat(series, (n \div 2) + 1)


\* mutant: the median itself passes
AboveMedian_NonStrict(x, median2) == 2 * x >= median2

\* x > median and x < median, given twice the median
AboveMedian(x, median2) == 2 * x > median2

\* mutant: the median itself counts as below
BelowMedian_NonStrict(x, median2) == 2 * x <= median2

BelowMedian(x, median2) == 2 * x < median2

Column(rows, f) == AsSeq([i \in 1..Len(rows) |-> rows[i][f]])

\* lines 28-68: the table with the normalised columns, Priority_Score (in
\* tenths, exact) and Has_Potential added, in input order
ScoredRows(rows) ==
    LET df == AsSeq([i \in 1..Len(rows) |-> Sanitize(rows[i])])
        n == Len(df)
        norm_impressions == Normalize(AsSeq([i \in 1..n |-> <<df[i].Impressions, 1>>]))
        norm_position == Normalize(AsSeq([i \in 1..n |-> Inverse(df[i].Position)]))
        norm_link_score == Normalize(AsSeq([i \in 1..n |-> Inverse(df[i].LinkScore)]))
        norm_depth == Normalize(AsSeq([i \in 1..n |-> Inverse(df[i].CrawlDepth)]))
        impressions_median2 == Median2(Column(df, "Impressions"))
        link_score_median2 == Median2(Column(df, "LinkScore"))
    IN  AsSeq([i \in 1..n |->
            [Address |-> df[i].Address,
             Impressions |-> df[i].Impressions,
             Position |-> df[i].Position,
             LinkScore |-> df[i].LinkScore,
             CrawlDepth |-> df[i].CrawlDepth,
             UniqueInlinks |-> df[i].UniqueInlinks,
             norm_impressions |-> norm_impressions[i],
             norm_position |-> norm_position[i],
             norm_link_score |-> norm_link_score[i],
             norm_depth |-> norm_depth[i],
             Priority_Score |->
                 RatAdd(RatAdd(RatScale(PRIORITY_WEIGHTS.impressions, norm_impressions[i]),
                               RatScale(PRIORITY_WEIGHTS.position, norm_position[i])),
                        RatAdd(RatScale(PRIORITY_WEIGHTS.link_score, norm_link_score[i]),
                               RatScale(PRIORITY_WEIGHTS.depth, norm_depth[i]))),
             Has_Potential |->
                 /\ AboveMedian(df[i].Impressions, impressions_median2)
                 /\ df[i].Position > 10
                 /\ BelowMedian(df[i].LinkScore, link_score_median2)]])

\* The orders a descending sort of keys may return: rank[i] is the number of
\* rows that must come before row i.  sort_values uses the default
\* kind='quicksort', which is not stable: rows with equal keys may come out
\* in any order.
RECURSIVE OrdersFrom(_, _)
OrdersFrom(rank, rest) ==
    IF rest = {} THEN {<<>>}
    ELSE LET m == MinOf({ rank[i] : i \in rest })
         IN  UNION { { <<i>> \o t : t \in OrdersFrom(rank, rest \ {i}) } :
                     i \in { j \in rest : rank[j] = m } }

Permute(rows, ord) == AsSeq([k \in 1..Len(ord) |-> rows[ord[k]]])


\* mutant: the priority table sorted ascending
PriorityRank_Ascending(rows) ==
    AsSeq([i \in 1..Len(rows) |->
        Cardinality({ j \in 1..Len(rows) :
                        RatLess(rows[j].Priority_Score, rows[i].Priority_Score) })])

PriorityRank(rows) ==
    AsSeq([i \in 1..Len(rows) |->
        Cardinality({ j \in 1..Len(rows) :
                        RatLess(rows[i].Priority_Score, rows[j].Priority_Score) })])

\* line 70: df.sort_values('Priority_Score', ascending=False)
PriorityTables(rows) ==
    LET scored == ScoredRows(rows)
    IN  { Permute(scored, ord) :
            ord \in OrdersFrom(PriorityRank(scored), 1..Len(scored)) }


(***************************************************************************)
(* compute_similarity_matrix: TF-IDF over the address text, then cosine.   *)
(***************************************************************************)
\* token_pattern r'\b\w+\b' with lowercase=True, on the addresses of Urls
Tokenize(url) ==
    CASE url = "/red-shoes" -> <<"red", "shoes">>
      [] url = "/blue-shoes" -> <<"blue", "shoes">>
      [] url = "/red-hats" -> <<"red", "hats">>
      [] url = "/about-us" -> <<"about", "us">>
      [] OTHER -> <<>>

\* the words of stop_words='english' that occur in Urls
StopWords == {"about", "us"}

IsContentWord(w) == w \notin StopWords

\* the analyzer of ngram_range=(1, 2): the words left after stop-word
\* removal, then the bigrams of adjacent remaining words
Analyze(url) ==
    LET words == SelectSeq(Tokenize(url), IsContentWord)
        unigrams == AsSeq([i \in 1..Len(words) |-> <<words[i]>>])
        bigrams == IF Len(words) < 2 THEN <<>>
                   ELSE AsSeq([i \in 1..(Len(words) - 1) |-> <<words[i], words[i + 1]>>])
    IN  unigrams \o bigrams

\* the analyzed documents, one per page
Documents(urls) == AsSeq([i \in 1..Len(urls) |-> Analyze(urls[i])])

\* the fitted vocabulary (max_features=1000 never binds on Urls)
Vocabulary(docs) == UNION { Range(docs[i]) : i \in 1..Len(docs) }

RECURSIVE SetToSeq(_)
SetToSeq(S) ==
    IF S = {} THEN <<>>
    ELSE LET x == CHOOSE y \in S : TRUE IN <<x>> \o SetToSeq(S \ {x})

\* 1000 * ln(k), rounded down, for k = 1..8
LnMilli == <<0, 693, 1098, 1386, 1609, 1791, 1945, 2079>>

\* smooth idf in thousandths: ln((1 + n) / (1 + df)) + 1
Idf(term, docs) ==
    LET n == Len(docs)
        docfreq == Cardinality({ i \in 1..n : term \in Range(docs[i]) })
    IN  1000 + LnMilli[1 + n] - LnMilli[1 + docfreq]

TermCount(term, doc) == Cardinality({ k \in 1..Len(doc) : doc[k] = term })

\* the l2-normalised TF-IDF rows, one per page, over the vocabulary in a
\* fixed order; a page without terms keeps a zero row
TfidfMatrix(docs) ==
    LET vocab == SetToSeq(Vocabulary(docs))
        idf == AsSeq([t \in 1..Len(vocab) |-> Idf(vocab[t], docs)])
        raw == AsSeq([i \in 1..Len(docs) |->
                   AsSeq([t \in 1..Len(vocab) |-> TermCount(vocab[t], docs[i]) * idf[t]])])
        norm == AsSeq([i \in 1..Len(docs) |->
                    ISqrt(SumSeq(AsSeq([t \in 1..Len(vocab) |-> raw[i][t] * raw[i][t]])))])
    IN  AsSeq([i \in 1..Len(docs) |->
            AsSeq([t \in 1..Len(vocab) |->
                IF norm[i] = 0 THEN 0 ELSE (raw[i][t] * SCALE) \div norm[i]])])

\* cosine_similarity of the unit rows: their dot products
CosineSimilarity(m) ==
    AsSeq([i \in 1..Len(m) |->
        AsSeq([j \in 1..Len(m) |->
            SumSeq(AsSeq([t \in 1..Len(m[i]) |-> m[i][t] * m[j][t]])) \div SCALE])])

\* fit_transform raises ValueError("empty vocabulary; ...") when no
\* document contains a term
EmptyVocabulary(urls) == Vocabulary(Documents(urls)) = {}

\* lines 77-78: a later row with the same address overwrites the earlier one
UrlToIdx(urls) ==
    [u \in Range(urls) |-> MaxOf({ i \in 1..Len(urls) : urls[i] = u })]

Addresses(rows) == AsSeq([i \in 1..Len(rows) |-> rows[i].Address])


(***************************************************************************)
(* get_existing_links, calculate_outlinks_count                            *)
(***************************************************************************)

\* mutant: the pair stored as (Destination, Source)
get_existing_links_swapped(inl) ==
    IF inl.isNone THEN {}
    ELSE { <<inl.v[i].Destination, inl.v[i].Source>> : i \in 1..Len(inl.v) }

get_existing_links(inl) ==
    IF inl.isNone THEN {}
    ELSE { <<inl.v[i].Source, inl.v[i].Destination>> : i \in 1..Len(inl.v) }

\* the dict of groupby('Source').size(), as a function on the sources
calculate_outlinks_count(inl) ==
    IF inl.isNone THEN [u \in {} |-> 0]
    ELSE [u \in { inl.v[i].Source : i \in 1..Len(inl.v) } |->
             Cardinality({ i \in 1..Len(inl.v) : inl.v[i].Source = u })]

\* dict.get(key, default)
DictGet(d, key, default) == IF key \in DOMAIN d THEN d[key] ELSE default

(***************************************************************************)
(* generate_link_opportunities                                             *)
(***************************************************************************)
Min(a, b) == IF a < b THEN a ELSE b

\* line 128: df_priority.head(top_n)
Head_n(rows, n) == SubSeq(rows, 1, Min(n, Len(rows)))


\* mutant: the target itself is not excluded
IsSource_NoSelfCheck(row, link_score_median2, target_url) ==
    2 * row.LinkScore > link_score_median2

\* lines 140-143: the candidate sources of a target, in table order
IsSource(row, link_score_median2, target_url) ==
    /\ AboveMedian(row.LinkScore, link_score_median2)
    /\ row.Address # target_url


\* mutant: the similarity threshold is not applied
Qualifies_NoThreshold(source, target, idx, existing_links, sim) ==
    /\ source.Address \in DOMAIN idx
    /\ <<source.Address, target.Address>> \notin existing_links

\* lines 147-160: the checks that skip a (source, target) pair
Qualifies(source, target, idx, existing_links, sim) ==
    /\ source.Address \in DOMAIN idx
    /\ <<source.Address, target.Address>> \notin existing_links
    /\ sim[idx[source.Address]][idx[target.Address]] >= MIN_SIMILARITY_THRESHOLD


\* A score that is not a number.  sort_values orders such rows after every
\* number (na_position='last'), as this value is ordered under every score.
NaN == 0 - SCALE * SCALE

\* The column Unique Inlinks is read as the table holds it: no step of
\* calculate_priority_score touches it.
\* line 166 raises: KeyError without the column, TypeError on a string,
\* ZeroDivisionError on -1 (iterrows hands out Python numbers)
RaisesAtTargetNeed(unique_inlinks) ==
    \/ unique_inlinks.kind \in {"absent", "text"}
    \/ unique_inlinks.kind = "num" /\ unique_inlinks.v = 0 - 1

\* line 166: target_need = 1 / (1 + target['Unique Inlinks']), in units of
\* 1 / SCALE
TargetNeed(unique_inlinks) ==
    CASE unique_inlinks.kind = "num" /\ unique_inlinks.v # 0 - 1 ->
             SCALE \div (1 + unique_inlinks.v)
      [] unique_inlinks.kind \in {"inf", "-inf"} -> 0
      [] OTHER -> NaN

\* mutant: the outlink count is not scaled by MAX_OUTLINKS_WARNING
OpportunityScore_Unscaled(source_link_score, similarity, outlinks, unique_inlinks) ==
    LET source_strength == (source_link_score * SCALE) \div 100
        outlinks_penalty == SCALE \div (1 + outlinks)
        target_need == TargetNeed(unique_inlinks)
    IN  IF target_need = NaN THEN NaN
        ELSE source_strength * LINK_OPPORTUNITY_WEIGHTS.source_strength
             + similarity * LINK_OPPORTUNITY_WEIGHTS.thematic_similarity
             + outlinks_penalty * LINK_OPPORTUNITY_WEIGHTS.outlinks_penalty
             + target_need * LINK_OPPORTUNITY_WEIGHTS.target_need

\* lines 163-173, in units of 1 / (10 * SCALE)
OpportunityScore(source_link_score, similarity, outlinks, unique_inlinks) ==
    LET source_strength == (source_link_score * SCALE) \div 100
        outlinks_penalty ==
            (SCALE * MAX_OUTLINKS_WARNING) \div (MAX_OUTLINKS_WARNING + outlinks)
        target_need == TargetNeed(unique_inlinks)
    IN  IF target_need = NaN THEN NaN
        ELSE source_strength * LINK_OPPORTUNITY_WEIGHTS.source_strength
             + similarity * LINK_OPPORTUNITY_WEIGHTS.thematic_similarity
             + outlinks_penalty * LINK_OPPORTUNITY_WEIGHTS.outlinks_penalty
             + target_need * LINK_OPPORTUNITY_WEIGHTS.target_need

\* lines 175-187
Opportunity(source, target, idx, outlinks_count, sim) ==
    LET similarity == sim[idx[source.Address]][idx[target.Address]]
        outlinks == DictGet(outlinks_count, source.Address, 0)
    IN  [Source |-> source.Address,
         Target |-> target.Address,
         Source_LinkScore |-> source.LinkScore,
         Target_LinkScore |-> target.LinkScore,
         Target_Priority_Score |-> target.Priority_Score,
         Similarity |-> similarity,
         Source_Outlinks |-> outlinks,
         Target_Inlinks |-> target.UniqueInlinks,
         Target_Impressions |-> target.Impressions,
         Target_Position |-> target.Position,
         Opportunity_Score |->
             OpportunityScore(source.LinkScore, similarity, outlinks,
                              target.UniqueInlinks)]

\* lines 145-187: the inner loop over the sources of one target
OpportunitiesFor(target, prio, idx, existing_links, outlinks_count, sim) ==
    IF target.Address \notin DOMAIN idx THEN <<>>
    ELSE LET link_score_median2 == Median2(Column(prio, "LinkScore"))
             Keep(row) ==
                 /\ IsSource(row, link_score_median2, target.Address)
                 /\ Qualifies(row, target, idx, existing_links, sim)
             kept == SelectSeq(prio, Keep)
         IN  AsSeq([k \in 1..Len(kept) |->
                 Opportunity(kept[k], target, idx, outlinks_count, sim)])

\* some pair of the loops reaches line 166 with a target whose Unique
\* Inlinks value makes it raise
TargetNeedRaises(targets, prio, idx, existing_links, sim) ==
    \E t \in 1..Len(targets), s \in 1..Len(prio) :
        /\ targets[t].Address \in DOMAIN idx
        /\ IsSource(prio[s], Median2(Column(prio, "LinkScore")), targets[t].Address)
        /\ Qualifies(prio[s], targets[t], idx, existing_links, sim)
        /\ RaisesAtTargetNeed(targets[t].UniqueInlinks)

\* lines 132-187: the outer loop over the targets
RECURSIVE CollectOpportunities(_, _, _, _, _, _)
CollectOpportunities(targets, prio, idx, existing_links, outlinks_count, sim) ==
    IF targets = <<>> THEN <<>>
    ELSE OpportunitiesFor(Head(targets), prio, idx, existing_links,
                          outlinks_count, sim)
         \o CollectOpportunities(Tail(targets), prio, idx, existing_links,
                                 outlinks_count, sim)


\* mutant: the opportunities sorted ascending
OpportunityRank_Ascending(opps) ==
    AsSeq([i \in 1..Len(opps) |->
        Cardinality({ j \in 1..Len(opps) :
                        opps[j].Opportunity_Score < opps[i].Opportunity_Score })])

OpportunityRank(opps) ==
    AsSeq([i \in 1..Len(opps) |->
        Cardinality({ j \in 1..Len(opps) :
                        opps[j].Opportunity_Score > opps[i].Opportunity_Score })])

\* line 195: sort_values('Opportunity_Score', ascending=False)
SortedOpportunities(opps) ==
    { Permute(opps, ord) : ord \in OrdersFrom(OpportunityRank(opps), 1..Len(opps)) }


\* mutant: one row too many per target
GroupHead_OffByOne(rows, k) ==
    LET Early(i) ==
            Cardinality({ j \in 1..(i - 1) : rows[j].Target = rows[i].Target }) <= k
        keep == { i \in 1..Len(rows) : Early(i) }
        Pos(r) == CHOOSE i \in keep : Cardinality({ j \in keep : j <= i }) = r
    IN  AsSeq([r \in 1..Cardinality(keep) |-> rows[Pos(r)]])

\* line 198: groupby('Target').head(k): a row stays when fewer than k rows
\* of its target come before it
GroupHead(rows, k) ==
    LET Early(i) ==
            Cardinality({ j \in 1..(i - 1) : rows[j].Target = rows[i].Target }) < k
        keep == { i \in 1..Len(rows) : Early(i) }
        Pos(r) == CHOOSE i \in keep : Cardinality({ j \in keep : j <= i }) = r
    IN  AsSeq([r \in 1..Cardinality(keep) |-> rows[Pos(r)]])

(***************************************************************************)
(* DataLoader (src/data_loader.py): the uploaded files, what the loaders   *)
(* keep of them, and merge_data.  A file is its set of column names (after *)
(* normalize_column_names) and its rows; a cell of a column the file lacks *)
(* is never read.                                                          *)
(***************************************************************************)
\* str.lower(), str.strip() and str.rstrip('/') on the addresses of the files
Lower(s) == CASE s = "/Red-Shoes" -> "/red-shoes" [] OTHER -> s

Strip(s) == CASE s = " /blue-shoes " -> "/blue-shoes" [] OTHER -> s

RStripSlash(s) == CASE s = "/red-shoes/" -> "/red-shoes" [] OTHER -> s

\* lines 314 and 316: .str.lower().str.strip().str.rstrip('/')
CleanUrl(s) == RStripSlash(Strip(Lower(s)))

\* line 121: str.lower().str.contains('indexable', na=False)
ContainsIndexable(s) ==
    CASE s = "Indexable" -> TRUE
      [] s = "Non-Indexable" -> TRUE
      [] OTHER -> FALSE

\* DataFrame.drop_duplicates(subset=..., keep='first')
drop_duplicates(rows, subset) ==
    LET Key(row) == [col \in subset |-> row[col]]
        keep == { i \in 1..Len(rows) :
                    \A j \in 1..(i - 1) : Key(rows[j]) # Key(rows[i]) }
        Pos(r) == CHOOSE i \in keep : Cardinality({ j \in keep : j <= i }) = r
    IN  AsSeq([r \in 1..Cardinality(keep) |-> rows[Pos(r)]])

\* the cell of a column, missing when the file has no such column
CellOf(file, row, col) == IF col \in file.columns THEN row[col] ELSE Missing

\* load_screaming_frog: None when the file has no address column, else the
\* table with numeric columns, filtered and without duplicate addresses
load_screaming_frog(file) ==
    IF "Address" \notin file.columns THEN None
    ELSE LET df == AsSeq([i \in 1..Len(file.rows) |->
                      [Address |-> file.rows[i].Address,
                       LinkScore |->
                           FillNa(ToNumeric(CellOf(file, file.rows[i], "LinkScore")), 0),
                       UniqueInlinks |->
                           FillNa(ToNumeric(CellOf(file, file.rows[i], "UniqueInlinks")), 0),
                       CrawlDepth |->
                           FillNa(ToNumeric(CellOf(file, file.rows[i], "CrawlDepth")), 1),
                       StatusCode |-> ToNumeric(CellOf(file, file.rows[i], "StatusCode")),
                       Indexability |->
                           IF "Indexability" \in file.columns
                           THEN file.rows[i].Indexability ELSE ""]])
             Status200(row) ==
                 "StatusCode" \in file.columns => row.StatusCode = Num(200)
             Indexable(row) ==
                 "Indexability" \in file.columns => ContainsIndexable(row.Indexability)
         IN  Some(drop_duplicates(SelectSeq(SelectSeq(df, Status200), Indexable),
                                  {"Address"}))

\* load_gsc_data: None when the file has no page column
load_gsc_data(file) ==
    IF "Page" \notin file.columns THEN None
    ELSE LET df == AsSeq([i \in 1..Len(file.rows) |->
                      [Page |-> file.rows[i].Page,
                       Impressions |->
                           FillNa(ToNumeric(CellOf(file, file.rows[i], "Impressions")), 0),
                       Position |->
                           FillNa(ToNumeric(CellOf(file, file.rows[i], "Position")), 100)]])
         IN  Some(drop_duplicates(df, {"Page"}))

\* load_inlinks: None when the file lacks a source or destination column
load_inlinks(file) ==
    IF ~({"Source", "Destination"} \subseteq file.columns) THEN None
    ELSE LET df == AsSeq([i \in 1..Len(file.rows) |->
                      [Source |-> file.rows[i].Source,
                       Destination |-> file.rows[i].Destination]])
         IN  Some(drop_duplicates(df, {"Source", "Destination"}))

\* a row of the merged table: the crawl row with the search metrics
MergedRow(crawl_row, impressions, position) ==
    [Address |-> crawl_row.Address,
     Impressions |-> impressions,
     Position |-> position,
     LinkScore |-> crawl_row.LinkScore,
     CrawlDepth |-> crawl_row.CrawlDepth,
     UniqueInlinks |-> crawl_row.UniqueInlinks]

\* lines 314-338: DataFrame.merge(how='left') on the cleaned addresses: every
\* crawl row once per search row with the same cleaned address, in order;
\* a crawl row without a match once, with Impressions 0 and Position 100
RECURSIVE LeftMerge(_, _)
LeftMerge(crawl, gsc) ==
    IF crawl = <<>> THEN <<>>
    ELSE LET row == Head(crawl)
             Matches(g) == CleanUrl(g.Page) = CleanUrl(row.Address)
             found == SelectSeq(gsc, Matches)
         IN  (IF found = <<>> THEN << MergedRow(row, Num(0), Num(100)) >>
              ELSE AsSeq([k \in 1..Len(found) |->
                       MergedRow(row, found[k].Impressions, found[k].Position)]))
             \o LeftMerge(Tail(crawl), gsc)

\* merge_data on the loader's tables.  The crawl exports of the model carry
\* no Clicks, Impressions and Position columns (line 307 is false).
merge_data(ld) ==
    IF ld.crawl_data.isNone THEN None
    ELSE IF ~ld.gsc_data.isNone
         THEN Some(LeftMerge(ld.crawl_data.v, ld.gsc_data.v))
         ELSE Some(AsSeq([i \in 1..Len(ld.crawl_data.v) |->
                       MergedRow(ld.crawl_data.v[i], Num(0), Num(100))]))

\* the exports a user may upload
CrawlColumns == {"Address", "LinkScore", "UniqueInlinks", "CrawlDepth"}

CrawlRow(address, link_score, unique_inlinks, crawl_depth) ==
    [Address |-> address, LinkScore |-> link_score,
     UniqueInlinks |-> unique_inlinks, CrawlDepth |-> crawl_depth,
     StatusCode |-> Num(200), Indexability |-> "Indexable"]

CrawlFiles ==
    { [columns |-> CrawlColumns \cup {"StatusCode", "Indexability"},
       rows |-> << CrawlRow("/red-shoes", Num(10), Num(0), Num(3)),
                   CrawlRow("/blue-shoes", Num(90), Num(5), Num(1)),
                   [CrawlRow("/about-us", Num(70), Num(9), Num(1))
                        EXCEPT !.StatusCode = Num(404), !.Indexability = "Non-Indexable"],
                   CrawlRow("/red-hats", Num(50), Num(1), Num(2)),
                   [CrawlRow("/about-us", Num(20), Num(1), Num(1))
                        EXCEPT !.Indexability = "Non-Indexable"],
                   CrawlRow("/red-shoes", Num(80), Num(7), Num(1)) >>],
      [columns |-> CrawlColumns \ {"CrawlDepth"},
       rows |-> << CrawlRow("/red-shoes", Num(90), Text, Missing),
                   CrawlRow("/red-hats", Num(10), Num(2), Missing),
                   CrawlRow("/blue-shoes", Missing, Num(1), Missing) >>],
      [columns |-> CrawlColumns,
       rows |-> << CrawlRow("/about-us", Num(20), Num(1), Num(1)) >>],
      [columns |-> {"LinkScore", "CrawlDepth"},
       rows |-> << CrawlRow("", Num(10), Num(0), Num(1)) >>] }

GscRow(page, impressions, position) ==
    [Page |-> page, Impressions |-> impressions, Position |-> position]

GscFiles ==
    { [columns |-> {"Page", "Impressions", "Position"},
       rows |-> << GscRow("/red-shoes", Num(1000), Num(20)),
                   GscRow("/blue-shoes", Num(0), Num(100)),
                   GscRow("/red-hats", Num(500), Num(5)) >>],
      [columns |-> {"Page", "Impressions", "Position"},
       rows |-> << GscRow("/Red-Shoes", Num(1000), Num(20)),
                   GscRow("/red-shoes/", Num(500), Num(5)),
                   GscRow(" /blue-shoes ", Text, Missing) >>],
      [columns |-> {"Impressions", "Position"},
       rows |-> << GscRow("", Num(10), Num(1)) >>] }

InlinksFiles ==
    { [columns |-> {"Source", "Destination"},
       rows |-> << [Source |-> "/blue-shoes", Destination |-> "/red-shoes"],
                   [Source |-> "/blue-shoes", Destination |-> "/red-shoes"] >>],
      [columns |-> {"Source"},
       rows |-> << [Source |-> "/blue-shoes", Destination |-> ""] >>] }

\* a file uploader holds a file or nothing
Uploads(files) == {None} \cup { Some(f) : f \in files }

(***************************************************************************)
(* The state machine: an SEOAnalyzer and the calls made on it.             *)
(***************************************************************************)
NoCall == [op |-> "none", status |-> "none", top_n |-> 0]

\* DataLoader.__init__ (html_content plays no part in the analysis)
NewLoader == [crawl_data |-> None, gsc_data |-> None, inlinks_data |-> None]

\* app.py lines 39-43; priority_data is None while the key is not set
NewSession ==
    [data_loaded |-> FALSE, merged_data |-> None,
     opportunities |-> None, priority_data |-> None]

\* no script run has displayed anything yet; loads are the values the three
\* load methods returned in the last click on the load button that had a
\* crawl file (None for a method that failed or was not called), clicks
\* counts the clicks on the load button
NewUi ==
    [pc |-> "main", button |-> "none", view |-> "none", table |-> None,
     loads |-> NewLoader, clicks |-> 0]

\* the analyzer used on its own, outside the application
NoApplication == loader = NewLoader /\ session = NewSession /\ ui = NewUi

Init ==
    /\ NoApplication
    /\ data \in PageTables
    /\ inlinks \in EdgeTables
    /\ similarity_matrix = None
    /\ url_to_idx = [u \in {} |-> 0]
    /\ call = NoCall
    /\ df_priority = <<>>
    /\ opportunities = <<>>
    /\ result = <<>>

\* calculate_priority_score(): pure, returns the sorted table
CalculatePriorityScore ==
    /\ \E prio \in PriorityTables(data) :
          /\ df_priority' = prio
          /\ result' = prio
    /\ call' = [op |-> "calculate_priority_score", status |-> "returned", top_n |-> 0]
    /\ opportunities' = <<>>
    /\ UNCHANGED <<data, inlinks, similarity_matrix, url_to_idx>>

\* generate_link_opportunities(top_n)
GenerateLinkOpportunities(top_n) ==
    \E prio \in PriorityTables(data) :
        LET urls == Addresses(data)
            compute == similarity_matrix.isNone
        IN  /\ df_priority' = prio
            /\ IF compute /\ EmptyVocabulary(urls)
               THEN \* compute_similarity_matrix raises after line 78
                    /\ url_to_idx' = UrlToIdx(urls)
                    /\ similarity_matrix' = similarity_matrix
                    /\ call' = [op |-> "generate_link_opportunities",
                                status |-> "raised", top_n |-> top_n]
                    /\ opportunities' = <<>>
                    /\ result' = <<>>
               ELSE LET idx == IF compute THEN UrlToIdx(urls) ELSE url_to_idx
                        sim == IF compute
                               THEN CosineSimilarity(TfidfMatrix(Documents(urls)))
                               ELSE similarity_matrix.v
                        opps == CollectOpportunities(
                                    Head_n(prio, top_n), prio, idx,
                                    get_existing_links(inlinks),
                                    calculate_outlinks_count(inlinks), sim)
                    IN  /\ url_to_idx' = idx
                        /\ similarity_matrix' = Some(sim)
                        /\ IF TargetNeedRaises(Head_n(prio, top_n), prio, idx,
                                               get_existing_links(inlinks), sim)
                           THEN \* line 166 raises inside the loops
                                /\ call' = [op |-> "generate_link_opportunities",
                                            status |-> "raised", top_n |-> top_n]
                                /\ opportunities' = <<>>
                                /\ result' = <<>>
                           ELSE /\ call' = [op |-> "generate_link_opportunities",
                                            status |-> "returned", top_n |-> top_n]
                                /\ opportunities' = opps
                                /\ \E sorted \in SortedOpportunities(opps) :
                                      result' = GroupHead(sorted,
                                                          TOP_K_SUGGESTIONS_PER_PAGE)
            /\ UNCHANGED <<data, inlinks>>

Next ==
    \/ CalculatePriorityScore /\ UNCHANGED appVars
    \/ \E top_n \in 1..MaxTopN : GenerateLinkOpportunities(top_n) /\ UNCHANGED appVars

Spec == Init /\ [][Next]_vars

(***************************************************************************)
(* An SEOAnalyzer constructed on a table as exported, before any cleaning, *)
(* and the priority scoring of it.                                         *)
(***************************************************************************)
InitPriority ==
    /\ NoApplication
    /\ data \in RawPageTables
    /\ inlinks = None
    /\ similarity_matrix = None
    /\ url_to_idx = [u \in {} |-> 0]
    /\ call = NoCall
    /\ df_priority = <<>>
    /\ opportunities = <<>>
    /\ result = <<>>

NextPriority == CalculatePriorityScore /\ UNCHANGED appVars

SpecPriority == InitPriority /\ [][NextPriority]_vars

(***************************************************************************)
(* An SEOAnalyzer constructed on a table whose Unique Inlinks column was   *)
(* not cleaned by the caller, and the opportunity generation on it.        *)
(***************************************************************************)
InitInlinks ==
    /\ NoApplication
    /\ data \in UncleanedInlinksTables
    /\ inlinks \in EdgeTables
    /\ similarity_matrix = None
    /\ url_to_idx = [u \in {} |-> 0]
    /\ call = NoCall
    /\ df_priority = <<>>
    /\ opportunities = <<>>
    /\ result = <<>>

NextInlinks ==
    \E top_n \in 1..MaxTopN : GenerateLinkOpportunities(top_n) /\ UNCHANGED appVars

SpecInlinks == InitInlinks /\ [][NextInlinks]_vars

(***************************************************************************)
(* The application (src/app.py).  Every user action starts a run of the    *)
(* script; ui.pc is the position of the run, "idle" between runs.          *)
(***************************************************************************)
\* mutant: data_loaded is set whatever merge_data returned
DataLoadedAfterMerge_Always(merged, data_loaded) == TRUE

\* lines 95-96
DataLoadedAfterMerge(merged, data_loaded) ==
    IF ~merged.isNone THEN TRUE ELSE data_loaded

\* a loader method stores its table only when it returns one
Stored(loaded, old) == IF loaded.isNone THEN old ELSE loaded

\* lines 83-91: what the load methods return for the files of a click; the
\* optional ones are called only with a file
LoadResults(sf_file, gsc_file, inlinks_file) ==
    [crawl_data |-> load_screaming_frog(sf_file),
     gsc_data |-> IF gsc_file.isNone THEN None ELSE load_gsc_data(gsc_file.v),
     inlinks_data |->
         IF inlinks_file.isNone THEN None ELSE load_inlinks(inlinks_file.v)]

InitApp ==
    /\ loader = NewLoader
    /\ session = NewSession
    /\ ui = NewUi
    /\ data = <<>>
    /\ inlinks = None
    /\ similarity_matrix = None
    /\ url_to_idx = [u \in {} |-> 0]
    /\ call = NoCall
    /\ df_priority = <<>>
    /\ opportunities = <<>>
    /\ result = <<>>

\* lines 76-97: the button "Charger et Analyser" with the three uploaders
ClickLoad(sf_file, gsc_file, inlinks_file) ==
    /\ ui.pc = "idle"
    /\ ui.clicks < MaxLoads
    /\ IF sf_file.isNone
       THEN UNCHANGED <<loader, session>>
       ELSE LET loads == LoadResults(sf_file.v, gsc_file, inlinks_file)
                crawl == Stored(loads.crawl_data, loader.crawl_data)
                gsc == Stored(loads.gsc_data, loader.gsc_data)
                inl == Stored(loads.inlinks_data, loader.inlinks_data)
                loaded == [crawl_data |-> crawl, gsc_data |-> gsc, inlinks_data |-> inl]
                merged == merge_data(loaded)
            IN  /\ loader' = loaded
                /\ session' = [session EXCEPT
                                  !.merged_data = merged,
                                  !.data_loaded = DataLoadedAfterMerge(merged, @)]
    /\ ui' = [ui EXCEPT !.pc = "main", !.button = "load", !.clicks = @ + 1,
                        !.loads = IF sf_file.isNone THEN @
                                  ELSE LoadResults(sf_file.v, gsc_file, inlinks_file)]
    /\ UNCHANGED analyzerVars

\* lines 99-106: the button "Reinitialiser", shown while data_loaded
ClickReset ==
    /\ ui.pc = "idle"
    /\ session.data_loaded
    /\ session' = [session EXCEPT !.data_loaded = FALSE,
                                  !.merged_data = None,
                                  !.opportunities = None]
    /\ ui' = [ui EXCEPT !.pc = "main", !.button = "reset"]
    /\ UNCHANGED <<loader, analyzerVars>>

\* any other widget (a slider, a filter, an uploader) reruns the script
Rerun ==
    /\ ui.pc = "idle"
    /\ ui' = [ui EXCEPT !.pc = "main", !.button = "none"]
    /\ UNCHANGED <<loader, session, analyzerVars>>

\* lines 109-157: the guide, or the SEOAnalyzer of this run.  An analyzer
\* built on None fails at its first use.
MainInterface ==
    /\ ui.pc = "main"
    /\ IF ~session.data_loaded
       THEN /\ ui' = [ui EXCEPT !.pc = "idle", !.view = "guide", !.table = None]
            /\ UNCHANGED analyzerVars
       ELSE IF session.merged_data.isNone
       THEN /\ ui' = [ui EXCEPT !.pc = "idle", !.view = "no table", !.table = None]
            /\ UNCHANGED analyzerVars
       ELSE /\ data' = session.merged_data.v
            /\ inlinks' = loader.inlinks_data
            /\ similarity_matrix' = None
            /\ url_to_idx' = [u \in {} |-> 0]
            /\ call' = NoCall
            /\ df_priority' = <<>>
            /\ opportunities' = <<>>
            /\ result' = <<>>
            /\ ui' = [ui EXCEPT !.pc = "priority"]
    /\ UNCHANGED <<loader, session>>

\* lines 160-163: the priority scores, computed once per session
CachePriority ==
    /\ ui.pc = "priority"
    /\ IF session.priority_data.isNone
       THEN /\ CalculatePriorityScore
            /\ session' = [session EXCEPT !.priority_data = Some(result')]
       ELSE UNCHANGED <<analyzerVars, session>>
    /\ ui' = [ui EXCEPT !.pc = "tab2"]
    /\ UNCHANGED loader

\* lines 200-248: the priority table; int(max of Impressions) fails on an
\* empty table and ends the run
PriorityTab ==
    /\ ui.pc = "tab2"
    /\ CalculatePriorityScore
    /\ ui' = IF result' = <<>>
             THEN [ui EXCEPT !.pc = "idle", !.view = "error", !.table = None]
             ELSE [ui EXCEPT !.pc = "tab3"]
    /\ UNCHANGED <<loader, session>>

\* lines 251-375: the opportunities, generated when the session holds none,
\* then displayed, offered for export and drawn; an exception of
\* generate_link_opportunities ends the run
OpportunitiesTab ==
    /\ ui.pc = "tab3"
    /\ IF session.opportunities.isNone
       THEN /\ GenerateLinkOpportunities(TOP_N_PAGES_TO_BOOST)
            /\ IF call'.status = "raised"
               THEN /\ UNCHANGED session
                    /\ ui' = [ui EXCEPT !.pc = "idle", !.view = "error", !.table = None]
               ELSE /\ session' = [session EXCEPT !.opportunities = Some(result')]
                    /\ ui' = [ui EXCEPT !.pc = "idle", !.view = "analysis",
                                        !.table = Some(result')]
       ELSE /\ UNCHANGED <<analyzerVars, session>>
            /\ ui' = [ui EXCEPT !.pc = "idle", !.view = "analysis",
                                !.table = session.opportunities]
    /\ UNCHANGED loader

NextApp ==
    \/ \E sf_file \in Uploads(CrawlFiles), gsc_file \in Uploads(GscFiles),
          inlinks_file \in Uploads(InlinksFiles) :
          ClickLoad(sf_file, gsc_file, inlinks_file)
    \/ ClickReset
    \/ Rerun
    \/ MainInterface
    \/ CachePriority
    \/ PriorityTab
    \/ OpportunitiesTab

SpecApp == InitApp /\ [][NextApp]_vars


(***************************************************************************)
(* Vocabulary of the properties                                            *)
(***************************************************************************)
Generated == call.op = "generate_link_opportunities"

Returned == Generated /\ call.status = "returned"

Raised == Generated /\ call.status = "raised"

\* the rows of the edge table (none when no table was supplied)
EdgeTableRows == IF inlinks.isNone THEN <<>> ELSE inlinks.v

HasEdge(s, d) ==
    \E e \in 1..Len(EdgeTableRows) :
        EdgeTableRows[e].Source = s /\ EdgeTableRows[e].Destination = d

\* the link-strength column of the page set, as scored
LinkStrengths == AsSeq([i \in 1..Len(data) |-> Sanitize(data[i]).LinkScore])

\* the rows of the priority table that are targets of the call
TargetRows == 1..Min(call.top_n, Len(df_priority))

\* the stored similarity of two addresses
StoredSimilarity(s, t) == similarity_matrix.v[url_to_idx[s]][url_to_idx[t]]

\* row s of the priority table passes every filter as a source of row t
PassesOtherFilters(s, t) ==
    /\ 2 * df_priority[s].LinkScore > Median2(LinkStrengths)
    /\ df_priority[s].Address # df_priority[t].Address
    /\ StoredSimilarity(df_priority[s].Address, df_priority[t].Address) >= SCALE \div 10

RowsOf(rows, target) == { i \in 1..Len(rows) : rows[i].Target = target }

\* C1: no returned row is a (Source, Target) pair that is a (Source,
\* Destination) row of the edge table.
C1_NoExistingEdge ==
    Returned =>
        \A i \in 1..Len(result) : ~HasEdge(result[i].Source, result[i].Target)

\* C1 witness: an edge (B, A) of the table joins a source B and a target A
\* that pass the median filter and the similarity threshold.
C1_Witness ==
    /\ Returned
    /\ \E s \in 1..Len(df_priority), t \in TargetRows :
          /\ PassesOtherFilters(s, t)
          /\ HasEdge(df_priority[s].Address, df_priority[t].Address)

\* C2: no returned row has Source equal to Target.
C2_NoSelfPair ==
    Returned => \A i \in 1..Len(result) : result[i].Source # result[i].Target

\* C2 witness: a target of the call is itself above the median link-strength
\* and similar to itself, and the call returned rows.
C2_Witness ==
    /\ Returned
    /\ result # <<>>
    /\ \E t \in TargetRows :
          /\ 2 * df_priority[t].LinkScore > Median2(LinkStrengths)
          /\ StoredSimilarity(df_priority[t].Address, df_priority[t].Address)
                >= SCALE \div 10

\* C3: every returned row has Similarity >= 0.1, and Similarity is the
\* matrix entry of the row's own Source and Target.
C3_SimilarityThreshold ==
    Returned =>
        \A i \in 1..Len(result) :
            /\ result[i].Similarity >= SCALE \div 10
            /\ result[i].Similarity = StoredSimilarity(result[i].Source, result[i].Target)

\* C3 witness: a source above the median and a target with different
\* addresses, not linked yet, are less similar than 0.1, and rows were
\* returned for other pairs.
C3_Witness ==
    /\ Returned
    /\ result # <<>>
    /\ \E s \in 1..Len(df_priority), t \in TargetRows :
          /\ 2 * df_priority[s].LinkScore > Median2(LinkStrengths)
          /\ df_priority[s].Address # df_priority[t].Address
          /\ ~HasEdge(df_priority[s].Address, df_priority[t].Address)
          /\ StoredSimilarity(df_priority[s].Address, df_priority[t].Address)
                < SCALE \div 10

\* C4: no Target occurs in more than top_k_per_target returned rows.
C4_PerTargetCap ==
    Returned =>
        \A i \in 1..Len(result) :
            Cardinality(RowsOf(result, result[i].Target)) <= TOP_K_SUGGESTIONS_PER_PAGE

\* C4 witness: more than top_k_per_target pairs qualified for one target.
C4_Witness ==
    /\ Returned
    /\ \E i \in 1..Len(opportunities) :
          Cardinality(RowsOf(opportunities, opportunities[i].Target))
              > TOP_K_SUGGESTIONS_PER_PAGE

CountOf(rows, r) == Cardinality({ i \in 1..Len(rows) : rows[i] = r })

BetterRowsOf(rows, target, score) ==
    { i \in RowsOf(rows, target) : rows[i].Opportunity_Score > score }

\* C5: the returned rows are qualifying pairs in descending Opportunity_Score
\* order; each target keeps min(top_k_per_target, its number of qualifying
\* pairs) rows, whatever the other targets keep; and every qualifying pair of
\* a target that scores strictly higher than a kept pair of it is kept too.
C5_CapAfterSort ==
    Returned =>
        /\ \A i, j \in 1..Len(result) :
              i < j => result[i].Opportunity_Score >= result[j].Opportunity_Score
        /\ \A i \in 1..Len(result) :
              CountOf(result, result[i]) <= CountOf(opportunities, result[i])
        /\ \A i \in 1..Len(opportunities) :
              Cardinality(RowsOf(result, opportunities[i].Target))
                  = Min(TOP_K_SUGGESTIONS_PER_PAGE,
                        Cardinality(RowsOf(opportunities, opportunities[i].Target)))
        /\ \A i \in 1..Len(result) :
              Cardinality(BetterRowsOf(opportunities, result[i].Target,
                                       result[i].Opportunity_Score))
                  = Cardinality(BetterRowsOf(result, result[i].Target,
                                             result[i].Opportunity_Score))

\* C5 witness: a target has more qualifying pairs than the cap, with
\* different scores, so the cap drops a pair that scores lower.
C5_Witness ==
    /\ Returned
    /\ \E i, j \in 1..Len(opportunities) :
          /\ opportunities[i].Target = opportunities[j].Target
          /\ opportunities[i].Opportunity_Score > opportunities[j].Opportunity_Score
          /\ Cardinality(RowsOf(opportunities, opportunities[i].Target))
                > TOP_K_SUGGESTIONS_PER_PAGE

\* C6: every returned Target is the address of one of the first top_n rows
\* of the priority table, a row that no excluded row outscores.
C6_TopNTargets ==
    Returned =>
        \A i \in 1..Len(result) :
            \E k \in TargetRows :
                /\ df_priority[k].Address = result[i].Target
                /\ \A j \in (1..Len(df_priority)) \ TargetRows :
                      ~RatLess(df_priority[k].Priority_Score,
                               df_priority[j].Priority_Score)

\* C6 witness: a page outside the first top_n rows has a source that passes
\* every filter, and it is no Target of the returned rows.
C6_Witness ==
    /\ Returned
    /\ result # <<>>
    /\ \E j \in (1..Len(df_priority)) \ TargetRows, s \in 1..Len(df_priority) :
          /\ PassesOtherFilters(s, j)
          /\ ~HasEdge(df_priority[s].Address, df_priority[j].Address)
          /\ \A i \in 1..Len(result) : result[i].Target # df_priority[j].Address

\* C7: every returned Source is a page of the page set whose link-strength
\* is strictly greater than the median link-strength of the page set.
C7_SourceAboveMedian ==
    Returned =>
        \A i \in 1..Len(result) :
            /\ 2 * result[i].Source_LinkScore > Median2(LinkStrengths)
            /\ \E p \in 1..Len(data) :
                  /\ data[p].Address = result[i].Source
                  /\ LinkStrengths[p] = result[i].Source_LinkScore

\* C7 witness: a page whose link-strength equals the median passes the other
\* filters for a target, rows are returned, and it is no Source of them.
C7_Witness ==
    /\ Returned
    /\ result # <<>>
    /\ \E s \in 1..Len(df_priority), t \in TargetRows :
          /\ 2 * df_priority[s].LinkScore = Median2(LinkStrengths)
          /\ df_priority[s].Address # df_priority[t].Address
          /\ ~HasEdge(df_priority[s].Address, df_priority[t].Address)
          /\ StoredSimilarity(df_priority[s].Address, df_priority[t].Address)
                >= SCALE \div 10
          /\ \A i \in 1..Len(result) : result[i].Source # df_priority[s].Address

\* the number of rows of the edge table whose Source is the address
OutlinkRows(address) ==
    Cardinality({ e \in 1..Len(EdgeTableRows) : EdgeTableRows[e].Source = address })

\* C8: Opportunity_Score = 0.4 * (source link score / 100) + 0.4 * similarity
\* + 0.1 / (1 + outlinks / 100) + 0.1 / (1 + target unique inlinks), with
\* outlinks the number of edge rows of the Source; and a pair that passes
\* the filters is collected whatever its outlink count.
C8_OpportunityScore ==
    Returned =>
        /\ \A i \in 1..Len(result) :
              /\ result[i].Source_Outlinks = OutlinkRows(result[i].Source)
              /\ \E p \in 1..Len(data) :
                    /\ data[p].Address = result[i].Target
                    /\ data[p].UniqueInlinks = result[i].Target_Inlinks
              /\ result[i].Opportunity_Score =
                    4 * ((result[i].Source_LinkScore * SCALE) \div 100)
                    + 4 * result[i].Similarity
                    + (SCALE * 100) \div (100 + result[i].Source_Outlinks)
                    + SCALE \div (1 + result[i].Target_Inlinks.v)
        /\ \A s \in 1..Len(df_priority), t \in TargetRows :
              (PassesOtherFilters(s, t)
                 /\ ~HasEdge(df_priority[s].Address, df_priority[t].Address))
              => \E i \in 1..Len(opportunities) :
                    /\ opportunities[i].Source = df_priority[s].Address
                    /\ opportunities[i].Target = df_priority[t].Address

\* C8 witness: a returned row whose Source has rows in the edge table.
C8_Witness ==
    /\ Returned
    /\ \E i \in 1..Len(result) : result[i].Source_Outlinks > 0

\* every metric column of the page set is constant
ZeroVariance ==
    \A p, q \in 1..Len(data) :
        /\ data[p].Impressions = data[q].Impressions
        /\ data[p].Position = data[q].Position
        /\ data[p].LinkScore = data[q].LinkScore
        /\ data[p].CrawlDepth = data[q].CrawlDepth

Degenerate == data = <<>> \/ ZeroVariance \/ EmptyVocabulary(Addresses(data))

\* C9: on a degenerate page set (empty, zero variance in every metric, or no
\* usable token in any address) calculate_priority_score returns 0 scores and
\* generate_link_opportunities returns an empty result; neither raises.
C9_DegenerateNeverRaises ==
    Degenerate =>
        /\ Generated => (call.status = "returned" /\ result = <<>>)
        /\ (call.op = "calculate_priority_score" /\ (data = <<>> \/ ZeroVariance))
              => \A i \in 1..Len(result) : result[i].Priority_Score = <<0, 1>>

\* C10: without an edge table generate_link_opportunities does not fail, no
\* pair is suppressed as already linked, and every returned row has outlink
\* count 0, hence outlinks_penalty 1.
C10_NoEdgeTable ==
    (Generated /\ inlinks.isNone) =>
        /\ call.status = "returned"
        /\ \A s \in 1..Len(df_priority), t \in TargetRows :
              PassesOtherFilters(s, t)
              => \E i \in 1..Len(opportunities) :
                    /\ opportunities[i].Source = df_priority[s].Address
                    /\ opportunities[i].Target = df_priority[t].Address
        /\ \A i \in 1..Len(result) :
              /\ result[i].Source_Outlinks = 0
              /\ result[i].Opportunity_Score =
                    4 * ((result[i].Source_LinkScore * SCALE) \div 100)
                    + 4 * result[i].Similarity
                    + SCALE
                    + SCALE \div (1 + result[i].Target_Inlinks.v)

(***************************************************************************)
(* Properties of calculate_priority_score                                  *)
(***************************************************************************)
Scored == call.op = "calculate_priority_score"

NormalizedColumns == {"impressions", "position", "link_score", "depth"}

\* the value of a returned row that went into _normalize
NormInput(row, col) ==
    CASE col = "impressions" -> <<row.Impressions, 1>>
      [] col = "position" -> <<1, row.Position + 1>>
      [] col = "link_score" -> <<1, row.LinkScore + 1>>
      [] col = "depth" -> <<1, row.CrawlDepth + 1>>

\* the value _normalize gave it
NormOutput(row, col) ==
    CASE col = "impressions" -> row.norm_impressions
      [] col = "position" -> row.norm_position
      [] col = "link_score" -> row.norm_link_score
      [] col = "depth" -> row.norm_depth

AllEqual(rows, col) ==
    \A i, j \in 1..Len(rows) : NormInput(rows[i], col) = NormInput(rows[j], col)

IsMinimum(rows, col, i) ==
    \A j \in 1..Len(rows) : RatLeq(NormInput(rows[i], col), NormInput(rows[j], col))

IsMaximum(rows, col, i) ==
    \A j \in 1..Len(rows) : RatLeq(NormInput(rows[j], col), NormInput(rows[i], col))

\* C12: for every column passed to _normalize: when its values are not all
\* equal the minimum maps to 0, the maximum maps to 1 and every output lies
\* in [0, 1]; when they are all equal every output is 0.
C12_NormalizeRange ==
    Scored =>
        \A col \in NormalizedColumns :
            \A i \in 1..Len(result) :
                IF AllEqual(result, col)
                THEN NormOutput(result[i], col) = <<0, 1>>
                ELSE /\ RatLeq(<<0, 1>>, NormOutput(result[i], col))
                     /\ RatLeq(NormOutput(result[i], col), <<1, 1>>)
                     /\ IsMinimum(result, col, i) => NormOutput(result[i], col) = <<0, 1>>
                     /\ IsMaximum(result, col, i) => NormOutput(result[i], col) = <<1, 1>>

\* C12 witness: a scored table with a column of equal values, and a column
\* of three different values whose minimum is not 0.
C12_Witness ==
    /\ Scored
    /\ \E col \in NormalizedColumns : Len(result) > 1 /\ AllEqual(result, col)
    /\ \E col \in NormalizedColumns :
          \E i, j, k \in 1..Len(result) :
              /\ RatLess(<<0, 1>>, NormInput(result[i], col))
              /\ RatLess(NormInput(result[i], col), NormInput(result[j], col))
              /\ RatLess(NormInput(result[j], col), NormInput(result[k], col))

\* the number a cell stands for, the default when it holds none
ValueOr(cell, default) == IF cell.kind = "num" THEN cell.v ELSE default

AtLeast(x, lo) == IF x < lo THEN lo ELSE x

AtMost(x, hi) == IF x > hi THEN hi ELSE x

\* the address and the four metrics of an input row, cleaned as stated
CleanedAsStated(row) ==
    [Address |-> row.Address,
     Impressions |-> AtLeast(ValueOr(row.Impressions, 0), 0),
     Position |-> AtMost(AtLeast(ValueOr(row.Position, 100), 1), 100),
     LinkScore |-> AtMost(AtLeast(ValueOr(row.LinkScore, 0), 0), 100),
     CrawlDepth |-> AtLeast(ValueOr(row.CrawlDepth, 1), 0)]

\* the address and the four metrics of a returned row
MetricsOf(row) ==
    [Address |-> row.Address,
     Impressions |-> row.Impressions,
     Position |-> row.Position,
     LinkScore |-> row.LinkScore,
     CrawlDepth |-> row.CrawlDepth]

\* C13: the returned table holds, for every input row, its metrics with a
\* missing, non-numeric or infinite value replaced by the default of the
\* metric (impressions 0, position 100, link-strength 0, crawl depth 1) and
\* then clipped (position to [1, 100], link-strength to [0, 100], impressions
\* and crawl depth to >= 0).
C13_SanitizedMetrics ==
    Scored =>
        \A p \in 1..Len(data) :
            Cardinality({ q \in 1..Len(data) :
                            CleanedAsStated(data[q]) = CleanedAsStated(data[p]) })
              = Cardinality({ i \in 1..Len(result) :
                                MetricsOf(result[i]) = CleanedAsStated(data[p]) })

\* (x - min) / (max - min) over the values of a column, 0 when max = min
Rescaled(rows, col, i) ==
    LET values == { NormInput(rows[j], col) : j \in 1..Len(rows) }
        lo == RatMin(values)
        hi == RatMax(values)
    IN  IF lo = hi THEN <<0, 1>>
        ELSE RatDiv(RatSub(NormInput(rows[i], col), lo), RatSub(hi, lo))

\* 10 * (0.3 a + 0.2 b + 0.3 c + 0.2 d)
WeightedTenths(a, b, c, d) ==
    RatAdd(RatAdd(RatScale(3, a), RatScale(2, b)),
           RatAdd(RatScale(3, c), RatScale(2, d)))

IsPageA(row) ==
    /\ row.Impressions = 1000
    /\ row.Position = 20
    /\ row.LinkScore = 10
    /\ row.CrawlDepth = 3

IsPageB(row) ==
    /\ row.Impressions = 0
    /\ row.Position = 100
    /\ row.LinkScore = 90
    /\ row.CrawlDepth = 1

\* C14: every returned row has Priority_Score = 0.3 norm(impressions)
\* + 0.2 norm(1 / (position + 1)) + 0.3 norm(1 / (linkscore + 1))
\* + 0.2 norm(1 / (depth + 1)) over the sanitized metrics of the table; and
\* in the table of the two pages A (1000, 20, 10, 3) and B (0, 100, 90, 1),
\* A's score is strictly greater than B's.
C14_PriorityScore ==
    Scored =>
        /\ \A i \in 1..Len(result) :
              result[i].Priority_Score =
                  WeightedTenths(Rescaled(result, "impressions", i),
                                 Rescaled(result, "position", i),
                                 Rescaled(result, "link_score", i),
                                 Rescaled(result, "depth", i))
        /\ \A a, b \in 1..Len(result) :
              (Len(result) = 2 /\ IsPageA(result[a]) /\ IsPageB(result[b]))
              => RatLess(result[b].Priority_Score, result[a].Priority_Score)

\* C14 witness: the scored table of the two pages A and B.
C14_Witness ==
    /\ Scored
    /\ Len(result) = 2
    /\ \E a, b \in 1..2 : IsPageA(result[a]) /\ IsPageB(result[b])

\* C15: the returned table holds every input row exactly once, in descending
\* Priority_Score order, and rows with equal Priority_Score keep the
\* relative order they have in the input table: the returned table is the
\* input table, scored, in the one order that sorts it stably.
C15_StableDescending ==
    Scored =>
        LET scored == ScoredRows(data)
        IN  \E ord \in Permutations(1..Len(scored)) :
                /\ result = Permute(scored, AsSeq(ord))
                /\ \A k, l \in 1..Len(scored) :
                      k < l =>
                          \/ RatLess(scored[ord[l]].Priority_Score,
                                     scored[ord[k]].Priority_Score)
                          \/ /\ scored[ord[l]].Priority_Score = scored[ord[k]].Priority_Score
                             /\ ord[k] < ord[l]

\* what a scored row says about its address
ScoreOf(row) == <<row.Address, row.Priority_Score, row.Has_Potential>>

ScoreCount(rows, x) == Cardinality({ i \in 1..Len(rows) : ScoreOf(rows[i]) = x })

\* C16: scoring the page table with its rows in any other order gives every
\* address the same Priority_Score and the same Has_Potential flag as the
\* returned table does.
C16_RowOrderInvariant ==
    Scored =>
        \A perm \in Permutations(1..Len(data)) :
            LET other == ScoredRows(Permute(data, AsSeq(perm)))
            IN  \A i \in 1..Len(result) :
                    ScoreCount(other, ScoreOf(result[i]))
                        = ScoreCount(result, ScoreOf(result[i]))

\* C16 witness: a scored table of three different rows, one of them flagged
\* Has_Potential.
C16_Witness ==
    /\ Scored
    /\ Len(data) = 3
    /\ \A i, j \in 1..3 : i # j => Sanitize(data[i]) # Sanitize(data[j])
    /\ \E i \in 1..3 : result[i].Has_Potential

\* the values of a metric column of the returned table in ascending order
Ascending(rows, f) ==
    CHOOSE s \in [1..Len(rows) -> { rows[i][f] : i \in 1..Len(rows) }] :
        /\ \A k \in 1..(Len(rows) - 1) : s[k] <= s[k + 1]
        /\ \A v \in { rows[i][f] : i \in 1..Len(rows) } :
              Cardinality({ k \in 1..Len(rows) : s[k] = v })
                  = Cardinality({ i \in 1..Len(rows) : rows[i][f] = v })

\* twice the median of the column: the two middle values of the ascending
\* column added (the middle value twice when the length is odd)
TwiceMedian(rows, f) ==
    LET s == Ascending(rows, f)
        n == Len(rows)
    IN  s[(n + 1) \div 2] + s[(n \div 2) + 1]

\* C17: a returned row has Has_Potential exactly when its impressions are
\* strictly above the median impressions of the table, its position is
\* strictly above 10 and its link-strength is strictly below the median
\* link-strength of the table.
C17_HasPotential ==
    Scored =>
        \A i \in 1..Len(result) :
            result[i].Has_Potential
              <=> /\ 2 * result[i].Impressions > TwiceMedian(result, "Impressions")
                  /\ result[i].Position > 10
                  /\ 2 * result[i].LinkScore < TwiceMedian(result, "LinkScore")

\* C17 witness: a scored table with a flagged row and a row whose
\* link-strength equals the median.
C17_Witness ==
    /\ Scored
    /\ \E i, k \in 1..Len(result) :
          /\ result[i].Has_Potential
          /\ 2 * result[k].LinkScore = TwiceMedian(result, "LinkScore")

(***************************************************************************)
(* Properties of compute_similarity_matrix                                 *)
(***************************************************************************)
\* the rounding error allowed to a fixed-point similarity
Tolerance == SCALE \div 100

IsOne(x) == x >= SCALE - Tolerance /\ x <= SCALE + Tolerance

\* C18: the stored similarity matrix has one row and one column per page, is
\* symmetric, has every entry in [0, 1] and every diagonal entry equal to
\* 1.0, also for a page whose address holds no term.
C18_SimilarityMatrix ==
    ~similarity_matrix.isNone =>
        LET m == similarity_matrix.v
            n == Len(data)
        IN  /\ Len(m) = n
            /\ \A i \in 1..n :
                  /\ Len(m[i]) = n
                  /\ IsOne(m[i][i])
                  /\ \A j \in 1..n :
                        /\ m[i][j] = m[j][i]
                        /\ m[i][j] >= 0
                        /\ m[i][j] <= SCALE + Tolerance

\* the rows of a scored table that pass the source test of lines 140-143
\* for a target
CandidateSources(rows, target_url) ==
    { i \in 1..Len(rows) :
        IsSource(rows[i], Median2(Column(rows, "LinkScore")), target_url) }

\* the last call was generate_link_opportunities(1) on the table of the two
\* pages A (1000, 20, 10, 3) and B (0, 100, 90, 1)
TwoPageScenario ==
    /\ Generated
    /\ call.top_n = 1
    /\ Len(df_priority) = 2
    /\ \E a, b \in 1..2 :
          /\ IsPageA(df_priority[a])
          /\ IsPageB(df_priority[b])
          /\ df_priority[a].Address # df_priority[b].Address

\* C23 as stated: in the two-page scenario with top_n = 1, A is the sole
\* target, the median link-strength is 50, no page has a link-strength
\* strictly above the median, and A has no candidate source.
C23_NoCandidateSource ==
    TwoPageScenario =>
        LET targets == Head_n(df_priority, 1)
            median2 == Median2(Column(df_priority, "LinkScore"))
        IN  /\ Len(targets) = 1
            /\ IsPageA(targets[1])
            /\ median2 = 2 * 50
            /\ \A i \in 1..2 : ~AboveMedian(df_priority[i].LinkScore, median2)
            /\ CandidateSources(df_priority, targets[1].Address) = {}

\* C23 amended: in the two-page scenario with top_n = 1, A is the sole
\* target, the median link-strength is 50, the test "strictly above the
\* median" is false for A and true for B, the candidate sources of A are
\* exactly B, and every returned row suggests a link from B to A.
C23_HubIsCandidateSource ==
    TwoPageScenario =>
        LET targets == Head_n(df_priority, 1)
            median2 == Median2(Column(df_priority, "LinkScore"))
        IN  /\ Len(targets) = 1
            /\ IsPageA(targets[1])
            /\ median2 = 2 * 50
            /\ \A i \in 1..2 :
                  AboveMedian(df_priority[i].LinkScore, median2)
                      <=> IsPageB(df_priority[i])
            /\ CandidateSources(df_priority, targets[1].Address)
                  = { i \in 1..2 : IsPageB(df_priority[i]) }
            /\ \A r \in 1..Len(result) :
                  \E b \in 1..2 :
                      /\ IsPageB(df_priority[b])
                      /\ result[r].Source = df_priority[b].Address
                      /\ result[r].Target = targets[1].Address

\* C23 witness: the call on the two-page scenario returned a suggestion.
C23_Witness ==
    /\ TwoPageScenario
    /\ Returned
    /\ Len(result) = 1

\* compute_similarity_matrix has run in an earlier call: it fills url_to_idx
\* (lines 77-78) before anything else, and generate_link_opportunities calls
\* it whenever it finds no matrix (lines 120-121)
HasComputedBefore ==
    \/ DOMAIN url_to_idx # {}
    \/ call.op = "generate_link_opportunities"

\* this step is a call of generate_link_opportunities that runs
\* compute_similarity_matrix
ComputesNow ==
    /\ call'.op = "generate_link_opportunities"
    /\ similarity_matrix.isNone

\* C22: over the calls on one SEOAnalyzer, compute_similarity_matrix runs at
\* most once, and only while no matrix is stored; a call that finds a matrix
\* keeps it and the address-to-index map as they are.
C22_SimilarityComputedOnce ==
    [][/\ ComputesNow => ~HasComputedBefore
       /\ ~similarity_matrix.isNone =>
              /\ similarity_matrix' = similarity_matrix
              /\ url_to_idx' = url_to_idx]_vars

\* the part of C22 about a stored matrix alone
Side_C22_StoredMatrixKept ==
    [][~similarity_matrix.isNone =>
          /\ similarity_matrix' = similarity_matrix
          /\ url_to_idx' = url_to_idx]_vars

\* C22 on tables whose addresses hold at least one term
Side_C22_OnceWithVocabulary ==
    [][~EmptyVocabulary(Addresses(data)) =>
          (ComputesNow => ~HasComputedBefore)]_vars

\* C24: whatever the column Unique Inlinks holds (a missing, non-numeric
\* or negative value, or no column at all), generate_link_opportunities does
\* not raise, and every row it returns has a finite target_need
\* = 1 / (1 + unique inlinks) in (0, 1] and a score that is a number.
C24_TargetNeedSanitized ==
    Generated =>
        /\ ~Raised
        /\ \A i \in 1..Len(result) :
              /\ TargetNeed(result[i].Target_Inlinks) # NaN
              /\ TargetNeed(result[i].Target_Inlinks) > 0
              /\ TargetNeed(result[i].Target_Inlinks) <= SCALE
              /\ result[i].Opportunity_Score # NaN

\* the part of C24 that holds: a call that returns rows of targets whose
\* Unique Inlinks is a number other than -1 scores them with a target_need
\* in (0, 1]
Side_C24_NumbersScored ==
    Returned =>
        \A i \in 1..Len(result) :
            result[i].Target_Inlinks.kind = "num" =>
                /\ TargetNeed(result[i].Target_Inlinks) > 0
                /\ TargetNeed(result[i].Target_Inlinks) <= SCALE

(***************************************************************************)
(* Properties of the loader and the application                            *)
(***************************************************************************)
\* the script run has gone into the analysis branch (app.py line 152)
InAnalysis ==
    \/ ui.pc \in {"priority", "tab2", "tab3"}
    \/ ui.view \in {"analysis", "error", "no table"}

\* C11: while the loader holds no crawl table, merge_data has returned None
\* (no merged table is stored), data_loaded is false and no run has gone
\* into the analysis branch; and no SEOAnalyzer is ever built on None.
C11_NoPageTable ==
    /\ loader.crawl_data.isNone =>
          /\ session.merged_data.isNone
          /\ ~session.data_loaded
          /\ ~InAnalysis
    /\ session.data_loaded => ~session.merged_data.isNone
    /\ ui.view # "no table"

\* C11 witness: the load button was used with a crawl file that could not
\* be loaded (the search file of the same click was), the run is over and
\* shows the guide.
C11_Witness ==
    /\ ui.button = "load"
    /\ ui.pc = "idle"
    /\ ui.view = "guide"
    /\ loader.crawl_data.isNone
    /\ ~loader.gsc_data.isNone

\* C19: every address of the crawl table has exactly one row in the merged
\* table, whatever search table was loaded with it.
C19_OneRowPerAddress ==
    ~session.merged_data.isNone =>
        \A c \in 1..Len(loader.crawl_data.v) :
            Cardinality({ i \in 1..Len(session.merged_data.v) :
                            session.merged_data.v[i].Address
                                = loader.crawl_data.v[c].Address }) = 1

\* the tables generate_link_opportunities may return to the application
\* for a page table and an edge table
FreshOpportunities(rows, inl) ==
    LET urls == Addresses(rows)
        sim == CosineSimilarity(TfidfMatrix(Documents(urls)))
    IN  UNION { { GroupHead(sorted, TOP_K_SUGGESTIONS_PER_PAGE) :
                    sorted \in SortedOpportunities(
                        CollectOpportunities(Head_n(prio, TOP_N_PAGES_TO_BOOST), prio,
                                             UrlToIdx(urls), get_existing_links(inl),
                                             calculate_outlinks_count(inl), sim)) } :
                prio \in PriorityTables(rows) }

\* C20: the opportunity table a finished run displays is one computed from
\* the merged table and the edge table loaded at that moment.
C20_DisplayedIsFresh ==
    (ui.pc = "idle" /\ ui.view = "analysis") =>
        ui.table.v \in FreshOpportunities(session.merged_data.v, loader.inlinks_data)

\* C21: the priority table the overview charts of a run are drawn from
\* (app.py lines 184-192, reached once the cache step is over) is a table
\* calculate_priority_score returns for the merged table loaded at that
\* moment.
C21_PriorityDataIsCurrent ==
    ui.pc = "tab2" =>
        /\ ~session.priority_data.isNone
        /\ session.priority_data.v \in PriorityTables(session.merged_data.v)

\* C25: the crawl table load_screaming_frog stores holds only rows with
\* Status Code 200 and an Indexability value of an indexable page, where the
\* file has these columns; a row marked Non-Indexable is never kept.
C25_OnlyIndexablePages ==
    ~loader.crawl_data.isNone =>
        \A i \in 1..Len(loader.crawl_data.v) :
            LET row == loader.crawl_data.v[i]
            IN  /\ row.StatusCode \in {Num(200), Missing}
                /\ row.Indexability \in {"Indexable", ""}

\* the part of C25 about the status code alone
Side_C25_Status200 ==
    ~loader.crawl_data.isNone =>
        \A i \in 1..Len(loader.crawl_data.v) :
            loader.crawl_data.v[i].StatusCode \in {Num(200), Missing}

\* C26: the DataLoader holds the tables of the files of the most recent
\* load only (nothing where that load had no file or could not read it),
\* the merged table of the session is the merge of these, and the analyzer
\* of a run is given that merged table and that edge table: no table of an
\* earlier load is used again.
C26_LoadUsesOnlyItsFiles ==
    /\ loader = ui.loads
    /\ ~session.merged_data.isNone => session.merged_data = merge_data(ui.loads)
    /\ ui.pc \in {"priority", "tab2", "tab3"} =>
          /\ inlinks = ui.loads.inlinks_data
          /\ Some(data) = merge_data(ui.loads)

\* C26 while every load of the session so far had all three files and
\* could read each of them
Side_C26_CompleteLoads ==
    (\A t \in {"crawl_data", "gsc_data", "inlinks_data"} :
        loader[t].isNone = ui.loads[t].isNone) =>
        /\ loader = ui.loads
        /\ ~session.merged_data.isNone =>
              session.merged_data = merge_data(ui.loads)

====
